---- MODULE Spec2Model ----
(***************************************************************************)
(* Model of the site-content extraction pipeline of scraper.py:            *)
(* find_relevant_links, extract_emails, extract_relevant_text,             *)
(* summarize_text and the orchestrator run_scraping_only.                  *)
(*                                                                         *)
(* Strings that the code inspects with substring tests (link text, href,   *)
(* URL) are sequences of one-character strings, so that "x in s",          *)
(* startswith, lower, strip, split and urlparse are computed as Python     *)
(* computes them.  Page text, which the code only measures and             *)
(* whitespace-normalises, is a sequence of runs [c, n]: n copies of the    *)
(* character c.                                                            *)
(***************************************************************************)
EXTENDS Integers, Sequences, FiniteSets, TLC

VARIABLES
    \* find_relevant_links: the anchors of the document, the base URL,
    \* the position of the for loop and the links dict being built
    anchors, base_url, idx, links,
    \* extract_relevant_text: the parsed document, the call's position
    \* and its return value
    soup, text_pc, text_result,
    \* run_scraping_only: position, results dict, links_dict, the pages
    \* visited so far, the wall clock, start_time and the environment
    pc, results, links_dict, visited, now, start_time, google_api_key,
    \* get_agent_answer and app.py: the module-level _agent_executor, the
    \* credentials set in os.environ, the executors built so far, the calls
    \* made so far, st.session_state['latest_ai_answer'] and how it is shown
    agent_executor, environ, builds, call_log, latest_ai_answer, shown

vars ==
    <<anchors, base_url, idx, links, soup, text_pc, text_result,
      pc, results, links_dict, visited, now, start_time, google_api_key,
      agent_executor, environ, builds, call_log, latest_ai_answer, shown>>

linkVars ==
    <<anchors, base_url, idx, links>>

textVars ==
    <<soup, text_pc, text_result>>

runVars ==
    <<pc, results, links_dict, visited, now, start_time, google_api_key>>

agentVars ==
    <<agent_executor, environ, builds, call_log, latest_ai_answer, shown>>

(***************************************************************************)
(* Bounds                                                                  *)
(***************************************************************************)
\* anchors per document handed to find_relevant_links
MaxAnchors ==
    2

\* elements per document body handed to extract_relevant_text
MaxChildren ==
    2

\* anchors on a homepage served to run_scraping_only
MaxHomeAnchors ==
    2

\* the longest time, in clock ticks, one request takes
MaxTick ==
    1

\* calls of get_agent_answer and summarize_text in one process
MaxCalls ==
    3

(***************************************************************************)
(* String literals of the source                                           *)
(***************************************************************************)
K_about ==
    <<"a","b","o","u","t">>
K_slash_about ==
    <<"/","a","b","o","u","t">>
K_company ==
    <<"c","o","m","p","a","n","y">>
K_who_we_are ==
    <<"w","h","o"," ","w","e"," ","a","r","e">>
K_who_we_are_hyphen ==
    <<"w","h","o","-","w","e","-","a","r","e">>
K_blog ==
    <<"b","l","o","g">>
K_news ==
    <<"n","e","w","s">>
K_press ==
    <<"p","r","e","s","s">>
K_careers ==
    <<"c","a","r","e","e","r","s">>
K_jobs ==
    <<"j","o","b","s">>
K_events ==
    <<"e","v","e","n","t","s">>
K_contact ==
    <<"c","o","n","t","a","c","t">>
K_slash_contact ==
    <<"/","c","o","n","t","a","c","t">>
K_get_in_touch_hyphen ==
    <<"g","e","t","-","i","n","-","t","o","u","c","h">>
K_get_in_touch ==
    <<"g","e","t"," ","i","n"," ","t","o","u","c","h">>
K_support ==
    <<"s","u","p","p","o","r","t">>
K_javascript ==
    <<"j","a","v","a","s","c","r","i","p","t",":">>
K_hash ==
    <<"#">>
K_tel ==
    <<"t","e","l",":">>
K_mailto ==
    <<"m","a","i","l","t","o",":">>
K_www ==
    <<"w","w","w",".">>
K_linkedin ==
    <<"l","i","n","k","e","d","i","n",".","c","o","m">>
K_facebook ==
    <<"f","a","c","e","b","o","o","k",".","c","o","m">>
K_twitter ==
    <<"t","w","i","t","t","e","r",".","c","o","m">>
K_instagram ==
    <<"i","n","s","t","a","g","r","a","m",".","c","o","m">>
K_youtube ==
    <<"y","o","u","t","u","b","e",".","c","o","m">>
K_slash_share ==
    <<"/","s","h","a","r","e">>
K_slash_intent ==
    <<"/","i","n","t","e","n","t">>
K_slash_addtoany ==
    <<"/","a","d","d","t","o","a","n","y">>
K_slash_login ==
    <<"/","l","o","g","i","n">>
K_slash_post ==
    <<"/","p","o","s","t">>
K_slash_status ==
    <<"/","s","t","a","t","u","s">>
K_slash_jobs ==
    <<"/","j","o","b","s">>
K_slash_careers ==
    <<"/","c","a","r","e","e","r","s">>
K_slash_legal ==
    <<"/","l","e","g","a","l">>
K_slash_privacy ==
    <<"/","p","r","i","v","a","c","y">>
K_in ==
    <<"i","n">>
K_user ==
    <<"u","s","e","r">>
K_channel ==
    <<"c","h","a","n","n","e","l">>
K_share ==
    <<"s","h","a","r","e">>
K_intent ==
    <<"i","n","t","e","n","t">>
K_addtoany ==
    <<"a","d","d","t","o","a","n","y">>
K_login ==
    <<"l","o","g","i","n">>
K_post ==
    <<"p","o","s","t">>
K_status ==
    <<"s","t","a","t","u","s">>
K_legal ==
    <<"l","e","g","a","l">>
K_privacy ==
    <<"p","r","i","v","a","c","y">>

\* Python's None for a URL or a text: both are tested with "if x" / "if not x"
\* only, where None and the empty string behave alike
None ==
    <<>>

(***************************************************************************)
(* Python string operations                                                *)
(***************************************************************************)
Min(S) ==
    CHOOSE x \in S : \A y \in S : x <= y

Max(S) ==
    CHOOSE x \in S : \A y \in S : x >= y

\* sub in s
Contains(s, sub) ==
    \E i \in 1..(Len(s) - Len(sub) + 1) : SubSeq(s, i, i + Len(sub) - 1) = sub

\* s.startswith(p)
StartsWith(s, p) ==
    /\ Len(p) <= Len(s)
    /\ SubSeq(s, 1, Len(p)) = p

\* s[k:]
From(s, k) ==
    SubSeq(s, k, Len(s))

LowerChar(c) ==
    CASE c = "A" -> "a" [] c = "B" -> "b" [] c = "C" -> "c" [] c = "D" -> "d"
      [] c = "E" -> "e" [] c = "F" -> "f" [] c = "G" -> "g" [] c = "H" -> "h"
      [] c = "I" -> "i" [] c = "J" -> "j" [] c = "K" -> "k" [] c = "L" -> "l"
      [] c = "M" -> "m" [] c = "N" -> "n" [] c = "O" -> "o" [] c = "P" -> "p"
      [] c = "Q" -> "q" [] c = "R" -> "r" [] c = "S" -> "s" [] c = "T" -> "t"
      [] c = "U" -> "u" [] c = "V" -> "v" [] c = "W" -> "w" [] c = "X" -> "x"
      [] c = "Y" -> "y" [] c = "Z" -> "z" [] OTHER -> c

\* s.lower()
Lower(s) ==
    [i \in 1..Len(s) |-> LowerChar(s[i])]

\* s.strip()
Strip(s) ==
    LET keep == {i \in 1..Len(s) : s[i] # " "}
    IN  IF keep = {} THEN <<>> ELSE SubSeq(s, Min(keep), Max(keep))

\* s.replace(old, ''): every occurrence of old removed, left to right
RECURSIVE Remove(_, _)
Remove(s, old) ==
    IF s = <<>> THEN <<>>
    ELSE IF StartsWith(s, old) THEN Remove(From(s, Len(old) + 1), old)
    ELSE <<Head(s)>> \o Remove(Tail(s), old)

\* position of the first character of s, at or after k, that is in stop;
\* Len(s) + 1 when there is none
FirstOf(s, stop, k) ==
    LET hits == {i \in k..Len(s) : s[i] \in stop}
    IN  IF hits = {} THEN Len(s) + 1 ELSE Min(hits)

(***************************************************************************)
(* urllib.parse.urlparse and urljoin, for http(s) URLs without             *)
(* dot-segments                                                            *)
(***************************************************************************)
Letters ==
    {"a","b","c","d","e","f","g","h","i","j","k","l","m","n","o","p","q","r",
     "s","t","u","v","w","x","y","z"}

Digits ==
    {"0","1","2","3","4","5","6","7","8","9"}

\* length of "scheme:" at the front of u, 0 when u has no scheme
SchemeLen(u) ==
    LET colon == FirstOf(u, {":"}, 1)
    IN  IF /\ colon > 1
           /\ colon <= Len(u)
           /\ LowerChar(u[1]) \in Letters
           /\ \A i \in 1..(colon - 1) :
                  LowerChar(u[i]) \in Letters \cup Digits \cup {"+", "-", "."}
        THEN colon
        ELSE 0

Scheme(u) ==
    Lower(SubSeq(u, 1, SchemeLen(u)))

AfterScheme(u) ==
    From(u, SchemeLen(u) + 1)

HasNetloc(u) ==
    StartsWith(AfterScheme(u), <<"/", "/">>)

\* urlparse(u).netloc
Netloc(u) ==
    LET r == AfterScheme(u)
    IN  IF HasNetloc(u) THEN SubSeq(r, 3, FirstOf(r, {"/", "?", "#"}, 3) - 1)
        ELSE <<>>

\* u from the start of its path on
AfterNetloc(u) ==
    LET r == AfterScheme(u)
    IN  IF HasNetloc(u) THEN From(r, FirstOf(r, {"/", "?", "#"}, 3)) ELSE r

\* urlparse(u).path
Path(u) ==
    LET r == AfterNetloc(u)
    IN  SubSeq(r, 1, FirstOf(r, {"?", "#"}, 1) - 1)

\* urlsplit raises ValueError("Invalid IPv6 URL")
UrlRaises(u) ==
    LET n == Netloc(u)
    IN  ("[" \in {n[i] : i \in 1..Len(n)}) # ("]" \in {n[i] : i \in 1..Len(n)})

\* the base path up to and including its last "/"
Dir(path) ==
    LET slashes == {i \in 1..Len(path) : path[i] = "/"}
    IN  IF slashes = {} THEN <<"/">> ELSE SubSeq(path, 1, Max(slashes))

\* "scheme://netloc" of u
Origin(u) ==
    Scheme(u) \o <<"/", "/">> \o Netloc(u)

\* urljoin(base, url)
urljoin(base, url) ==
    IF base = <<>> THEN url
    ELSE IF url = <<>> THEN base
    ELSE IF SchemeLen(url) > 0 /\ Scheme(url) # Scheme(base) THEN url
    ELSE IF HasNetloc(url) THEN Scheme(base) \o AfterScheme(url)
    ELSE IF Path(url) = <<>> THEN Origin(base) \o Path(base) \o AfterScheme(url)
    ELSE IF Head(Path(url)) = "/" THEN Origin(base) \o AfterScheme(url)
    ELSE Origin(base) \o Dir(Path(base)) \o AfterScheme(url)
\* <a href="/about">About Us</a>
Anchor1 ==
    [text |-> <<"A","b","o","u","t"," ","U","s">>,
     href |-> <<"/","a","b","o","u","t">>]
\* <a href="about-us">Our Story</a>
Anchor2 ==
    [text |-> <<"O","u","r"," ","S","t","o","r","y">>,
     href |-> <<"a","b","o","u","t","-","u","s">>]
\* <a href="/team">The Company</a>
Anchor3 ==
    [text |-> <<"T","h","e"," ","C","o","m","p","a","n","y">>,
     href |-> <<"/","t","e","a","m">>]
\* <a href="/blog/about">News</a>
Anchor4 ==
    [text |-> <<"N","e","w","s">>,
     href |-> <<"/","b","l","o","g","/","a","b","o","u","t">>]
\* <a href="/company">Info</a>
Anchor5 ==
    [text |-> <<"I","n","f","o">>,
     href |-> <<"/","c","o","m","p","a","n","y">>]
\* <a href="/contact">Contact</a>
Anchor6 ==
    [text |-> <<"C","o","n","t","a","c","t">>,
     href |-> <<"/","c","o","n","t","a","c","t">>]
\* <a href="/info">About & Contact</a>
Anchor7 ==
    [text |-> <<"A","b","o","u","t"," ","&"," ","C","o","n","t","a","c","t">>,
     href |-> <<"/","i","n","f","o">>]
\* <a href="mailto:help@acme.com">Support</a>
Anchor8 ==
    [text |-> <<"S","u","p","p","o","r","t">>,
     href |-> <<"m","a","i","l","t","o",":","h","e","l","p","@","a","c","m","e",".","c","o","m">>]
\* <a href="#top">Top</a>
Anchor9 ==
    [text |-> <<"T","o","p">>,
     href |-> <<"#","t","o","p">>]
\* <a href="">Empty</a>
Anchor10 ==
    [text |-> <<"E","m","p","t","y">>,
     href |-> <<>>]
\* <a href="http://[bad">About</a>
Anchor11 ==
    [text |-> <<"A","b","o","u","t">>,
     href |-> <<"h","t","t","p",":","/","/","[","b","a","d">>]
\* <a href="https://www.linkedin.com/company/acme">LinkedIn</a>
Anchor12 ==
    [text |-> <<"L","i","n","k","e","d","I","n">>,
     href |-> <<"h","t","t","p","s",":","/","/","w","w","w",".","l","i","n","k","e","d","i","n",".","c","o","m","/","c","o","m","p","a","n","y","/","a","c","m","e">>]
\* <a href="https://facebook.com/share?foo">Share</a>
Anchor13 ==
    [text |-> <<"S","h","a","r","e">>,
     href |-> <<"h","t","t","p","s",":","/","/","f","a","c","e","b","o","o","k",".","c","o","m","/","s","h","a","r","e","?","f","o","o">>]
\* <a href="https://facebook.com/acme-share">Fans</a>
Anchor14 ==
    [text |-> <<"F","a","n","s">>,
     href |-> <<"h","t","t","p","s",":","/","/","f","a","c","e","b","o","o","k",".","c","o","m","/","a","c","m","e","-","s","h","a","r","e">>]
\* <a href="https://twitter.com/a/b/c">Thread</a>
Anchor15 ==
    [text |-> <<"T","h","r","e","a","d">>,
     href |-> <<"h","t","t","p","s",":","/","/","t","w","i","t","t","e","r",".","c","o","m","/","a","/","b","/","c">>]
\* <a href="https://linkedin.com/Company/acme/people/x">People</a>
Anchor16 ==
    [text |-> <<"P","e","o","p","l","e">>,
     href |-> <<"h","t","t","p","s",":","/","/","l","i","n","k","e","d","i","n",".","c","o","m","/","C","o","m","p","a","n","y","/","a","c","m","e","/","p","e","o","p","l","e","/","x">>]
\* <a href="https://linkedwww.in.com/acme">Mirror</a>
Anchor17 ==
    [text |-> <<"M","i","r","r","o","r">>,
     href |-> <<"h","t","t","p","s",":","/","/","l","i","n","k","e","d","w","w","w",".","i","n",".","c","o","m","/","a","c","m","e">>]
\* <a href="team/who">Who We Are</a>
Anchor18 ==
    [text |-> <<"W","h","o"," ","W","e"," ","A","r","e">>,
     href |-> <<"t","e","a","m","/","w","h","o">>]

(***************************************************************************)
(* find_relevant_links                                                     *)
(***************************************************************************)
SOCIAL_DOMAINS ==
    {K_linkedin, K_facebook, K_twitter, K_instagram, K_youtube}

\* the prefixes of an href that the loop skips
SkippedPrefixes ==
    {K_javascript, K_hash, K_tel, K_mailto}

AboutExclusions ==
    {K_blog, K_news, K_press, K_careers, K_jobs, K_events}

SocialPathExclusions ==
    {K_slash_share, K_slash_intent, K_slash_addtoany, K_slash_login,
     K_slash_post, K_slash_status, K_slash_jobs, K_slash_careers,
     K_slash_legal, K_slash_privacy}

ProfileSegments ==
    {K_company, K_in, K_user, K_channel}

\* if not href or href.startswith(('javascript:', '#', 'tel:', 'mailto:')): continue
IsSkipped(href) ==
    \/ href = <<>>
    \/ \E p \in SkippedPrefixes : StartsWith(href, p)

\* is_about_link without the exclusion of blog, news, ... hrefs
is_about_link_NoExclusions(link_text, href_lower) ==
    \/ Contains(link_text, K_about)
    \/ Contains(href_lower, K_slash_about)
    \/ Contains(link_text, K_company)
    \/ Contains(link_text, K_who_we_are)
    \/ Contains(href_lower, K_who_we_are_hyphen)

is_about_link(link_text, href_lower) ==
    /\ \/ Contains(link_text, K_about)
       \/ Contains(href_lower, K_slash_about)
       \/ Contains(link_text, K_company)
       \/ Contains(link_text, K_who_we_are)
       \/ Contains(href_lower, K_who_we_are_hyphen)
    /\ ~ \E kw \in AboutExclusions : Contains(href_lower, kw)

is_contact_link(link_text, href_lower) ==
    \/ Contains(link_text, K_contact)
    \/ Contains(href_lower, K_slash_contact)
    \/ Contains(href_lower, K_get_in_touch_hyphen)
    \/ Contains(link_text, K_get_in_touch)
    \/ Contains(link_text, K_support)

\* [p for p in path_str.split('/') if p], as the positions <<first, last>>
\* of the parts: the list keeps equal parts apart
path_parts(path_str) ==
    {ij \in (1..Len(path_str)) \X (1..Len(path_str)) :
        /\ ij[1] <= ij[2]
        /\ \A k \in ij[1]..ij[2] : path_str[k] # "/"
        /\ ij[1] = 1 \/ path_str[ij[1] - 1] = "/"
        /\ ij[2] = Len(path_str) \/ path_str[ij[2] + 1] = "/"}

\* is_social accepting three path parts instead of two
is_social_ThreeParts(full_url) ==
    LET domain_of_link == Remove(Netloc(full_url), K_www)
        path_str == Lower(Path(full_url))
        parts == path_parts(path_str)
    IN  /\ \E social_domain \in SOCIAL_DOMAINS :
               Contains(domain_of_link, social_domain)
        /\ ~ \E word \in SocialPathExclusions : Contains(path_str, word)
        /\ \/ Cardinality(parts) <= 3
           \/ \E ij \in parts : SubSeq(path_str, ij[1], ij[2]) \in ProfileSegments

is_social(full_url) ==
    LET domain_of_link == Remove(Netloc(full_url), K_www)
        path_str == Lower(Path(full_url))
        parts == path_parts(path_str)
    IN  /\ \E social_domain \in SOCIAL_DOMAINS :
               Contains(domain_of_link, social_domain)
        /\ ~ \E word \in SocialPathExclusions : Contains(path_str, word)
        /\ \/ Cardinality(parts) <= 2
           \/ \E ij \in parts : SubSeq(path_str, ij[1], ij[2]) \in ProfileSegments

\* links = {'about': None, 'contact': None, 'social': set()}
EmptyLinks ==
    [about |-> None, contact |-> None, social |-> {}]

\* the loop body without the "not links[...]" tests: the last match wins
LinkBody_LastWins(l, link, base) ==
    LET link_text == Strip(Lower(link.text))
        href == link.href
        full_url == urljoin(base, href)
        href_lower == Lower(href)
    IN  IF IsSkipped(href) THEN l
        ELSE IF UrlRaises(href) THEN l
        ELSE [about |->
                 IF is_about_link(link_text, href_lower)
                 THEN full_url ELSE l.about,
              contact |->
                 IF is_contact_link(link_text, href_lower)
                 THEN full_url ELSE l.contact,
              social |->
                 IF is_social(full_url) THEN l.social \cup {full_url}
                 ELSE l.social]

\* one iteration of "for link in soup.find_all('a', href=True)"
LinkBody(l, link, base) ==
    LET link_text == Strip(Lower(link.text))
        href == link.href
        full_url == urljoin(base, href)
        href_lower == Lower(href)
    IN  IF IsSkipped(href) THEN l
        ELSE IF UrlRaises(href) THEN l
        ELSE [about |->
                 IF l.about = None /\ is_about_link(link_text, href_lower)
                 THEN full_url ELSE l.about,
              contact |->
                 IF l.contact = None /\ is_contact_link(link_text, href_lower)
                 THEN full_url ELSE l.contact,
              social |->
                 IF is_social(full_url) THEN l.social \cup {full_url}
                 ELSE l.social]

\* the whole loop, over the anchors from position k on
RECURSIVE LinkLoop(_, _, _, _)
LinkLoop(l, as, k, base) ==
    IF k > Len(as) THEN l
    ELSE LinkLoop(LinkBody(l, as[k], base), as, k + 1, base)

find_relevant_links(as, base) ==
    LinkLoop(EmptyLinks, as, 1, base)

\* the anchors a document can hold
AnchorPool ==
    {Anchor1, Anchor2, Anchor3, Anchor4, Anchor5, Anchor6, Anchor7, Anchor8,
     Anchor9, Anchor10, Anchor11, Anchor12, Anchor13, Anchor14, Anchor15,
     Anchor16, Anchor17, Anchor18}

AnchorSeqs ==
    UNION {[1..n -> AnchorPool] : n \in 0..MaxAnchors}

\* https://acme.com
BaseRoot ==
    <<"h","t","t","p","s",":","/","/","a","c","m","e",".","c","o","m">>

\* https://acme.com/site/home
BaseDeep ==
    BaseRoot \o <<"/","s","i","t","e","/","h","o","m","e">>

BaseUrls ==
    {BaseRoot, BaseDeep}

(***************************************************************************)
(* Documents.  A parsed document is a record                               *)
(*   [body, children, title, text_emails, anchors]                         *)
(* body: whether the tree has a <body>; children: the elements of the      *)
(* body in document order, each [tag, role, class, id, strings] with       *)
(* strings the text nodes of the element; text_emails: what                *)
(* re.findall(EMAIL_REGEX, ...) finds in the text nodes.  An optional      *)
(* value (a soup, a response) is <<>> for None and <<v>> otherwise.        *)
(***************************************************************************)
IsWs(c) ==
    c \in {" ", "\n"}

\* len(text)
RECURSIVE TextLen(_)
TextLen(t) ==
    IF t = <<>> THEN 0 ELSE Head(t).n + TextLen(Tail(t))

\* string.strip() of one text node
StripRuns(t) ==
    LET keep == {i \in 1..Len(t) : ~IsWs(t[i].c)}
    IN  IF keep = {} THEN <<>> ELSE SubSeq(t, Min(keep), Max(keep))

\* ' '.join(parts) for the non-empty stripped text nodes
RECURSIVE JoinStripped(_)
JoinStripped(strings) ==
    IF strings = <<>> THEN <<>>
    ELSE LET first == StripRuns(Head(strings))
             rest == JoinStripped(Tail(strings))
         IN  IF first = <<>> THEN rest
             ELSE IF rest = <<>> THEN first
             ELSE first \o <<[c |-> " ", n |-> 1]>> \o rest

\* element.get_text(separator=' ', strip=True)
get_text(element) ==
    JoinStripped(element.strings)

\* text.split() joined by single spaces, on a text without leading or
\* trailing whitespace: every run of whitespace becomes one space
RECURSIVE Collapse(_)
Collapse(t) ==
    IF t = <<>> THEN <<>>
    ELSE IF IsWs(Head(t).c)
         THEN IF Len(t) > 1 /\ IsWs(t[2].c) THEN Collapse(Tail(t))
              ELSE <<[c |-> " ", n |-> 1]>> \o Collapse(Tail(t))
         ELSE <<Head(t)>> \o Collapse(Tail(t))

\* ' '.join(text.split())
Normalize(t) ==
    Collapse(StripRuns(t))

\* selectors of the selector tier, in the order of the list; an empty field
\* of a selector matches anything
Sel(tag, role, class, id) ==
    [tag |-> tag, role |-> role, class |-> class, id |-> id]

selectors ==
    <<Sel("main", "", "", ""), Sel("article", "", "", ""),
      Sel("section", "main", "", ""), Sel("div", "main", "", ""),
      Sel("", "", "main-content", ""), Sel("", "", "", "main-content"),
      Sel("", "", "content", ""), Sel("", "", "", "content")>>

\* the tags, class and id decomposed from the body copy
noise_selectors ==
    {Sel("nav", "", "", ""), Sel("header", "", "", ""),
     Sel("footer", "", "", ""), Sel("script", "", "", ""),
     Sel("style", "", "", ""), Sel("aside", "", "", ""),
     Sel("form", "", "", ""), Sel("noscript", "", "", ""),
     Sel("iframe", "", "", ""), Sel("button", "", "", ""),
     Sel("", "", "sidebar", ""), Sel("", "", "", "sidebar")}

Matches(element, sel) ==
    /\ sel.tag = "" \/ element.tag = sel.tag
    /\ sel.role = "" \/ element.role = sel.role
    /\ sel.class = "" \/ element.class = sel.class
    /\ sel.id = "" \/ element.id = sel.id

\* soup.select_one(selector): <<>> or <<the first matching element>>
select_one(doc, sel) ==
    LET hits == {i \in 1..Len(doc.children) : Matches(doc.children[i], sel)}
    IN  IF hits = {} THEN <<>> ELSE <<doc.children[Min(hits)]>>

\* minimum length of a selector's text (len(tag_text) > 200)
MinContentLen ==
    200

\* the selector tier taking the longest of the qualifying texts
SelectorTier_Longest(doc, k) ==
    LET texts == {get_text(select_one(doc, selectors[j])[1]) :
                     j \in {i \in k..Len(selectors) :
                               select_one(doc, selectors[i]) # <<>>}}
        long == {t \in texts : TextLen(t) > MinContentLen}
    IN  IF long = {} THEN None
        ELSE CHOOSE t \in long : \A u \in long : TextLen(u) <= TextLen(t)

\* the for loop over the selectors, from selector k on: the text of the
\* first selector that qualifies, None when the loop ends without a break
RECURSIVE SelectorTier(_, _)
SelectorTier(doc, k) ==
    IF k > Len(selectors) THEN None
    ELSE LET content_area == select_one(doc, selectors[k])
         IN  IF /\ content_area # <<>>
                /\ TextLen(get_text(content_area[1])) > MinContentLen
             THEN get_text(content_area[1])
             ELSE SelectorTier(doc, k + 1)

\* the text of the body copy after the noise elements are decomposed
RECURSIVE CleanedStrings(_)
CleanedStrings(children) ==
    IF children = <<>> THEN <<>>
    ELSE IF \E sel \in noise_selectors : Matches(Head(children), sel)
         THEN CleanedStrings(Tail(children))
         ELSE Head(children).strings \o CleanedStrings(Tail(children))

\* the fallback without the removal of the noise elements
RECURSIVE AllStrings(_)
AllStrings(children) ==
    IF children = <<>> THEN <<>>
    ELSE Head(children).strings \o AllStrings(Tail(children))

FallbackTier_NoCleaning(doc) ==
    IF doc.body THEN JoinStripped(AllStrings(doc.children)) ELSE None

FallbackTier(doc) ==
    IF doc.body THEN JoinStripped(CleanedStrings(doc.children)) ELSE None

extract_relevant_text(s) ==
    IF s = <<>> THEN None
    ELSE LET tier1 == SelectorTier(s[1], 1)
             text == IF tier1 = None THEN FallbackTier(s[1]) ELSE tier1
         IN  IF text # <<>> THEN Normalize(text) ELSE None

\* text nodes
Run(c, n) ==
    <<[c |-> c, n |-> n]>>

Element(tag, role, class, id, strings) ==
    [tag |-> tag, role |-> role, class |-> class, id |-> id,
     strings |-> strings]

\* the elements a document body can hold
ElementPool ==
    {Element("main", "", "", "", <<Run("p", 250)>>),
     Element("main", "", "", "", <<Run("m", 200)>>),
     Element("article", "", "", "", <<Run("s", 500)>>),
     Element("div", "", "content", "", <<Run("c", 201)>>),
     Element("section", "main", "", "",
             <<Run("a", 100) \o Run(" ", 101) \o Run("b", 1)>>),
     Element("nav", "", "", "", <<Run("n", 300)>>),
     Element("form", "", "", "content", <<Run("f", 250)>>),
     Element("div", "", "", "sidebar", <<Run("d", 60)>>),
     Element("p", "", "", "", <<Run("t", 60)>>),
     Element("p", "", "", "", <<Run("t", 74)>>),
     Element("p", "", "", "", <<Run("t", 75)>>),
     Element("p", "", "", "", <<Run("t", 76)>>),
     Element("p", "", "", "", <<Run(" ", 3)>>),
     Element("p", "", "", "",
             <<Run(" ", 1) \o Run("h", 5) \o Run("\n", 2), Run("w", 5)>>)}

Document(body, children) ==
    [body |-> body, children |-> children, title |-> <<>>, text_emails |-> {},
     anchors |-> <<>>]

\* the documents handed to extract_relevant_text; lxml gives every
\* document with content a body
TextDocs ==
    {Document(FALSE, <<>>)} \cup
    {Document(TRUE, cs) :
        cs \in UNION {[1..n -> ElementPool] : n \in 0..MaxChildren}}
\* info@example.com
EmailInfo ==
    <<"i","n","f","o","@","e","x","a","m","p","l","e",".","c","o","m">>
\* sales@example.com
EmailSales ==
    <<"s","a","l","e","s","@","e","x","a","m","p","l","e",".","c","o","m">>
\* jobs@acme.io
EmailJobs ==
    <<"j","o","b","s","@","a","c","m","e",".","i","o">>
\* mailto:info@example.com?subject=hi
MailtoInfo ==
    <<"m","a","i","l","t","o",":","i","n","f","o","@","e","x","a","m","p","l","e",".","c","o","m","?","s","u","b","j","e","c","t","=","h","i">>
\* mailto:sales-team
MailtoBad ==
    <<"m","a","i","l","t","o",":","s","a","l","e","s","-","t","e","a","m">>
\* mailto:jobs@acme.io
MailtoJobs ==
    <<"m","a","i","l","t","o",":","j","o","b","s","@","a","c","m","e",".","i","o">>
\* Acme Inc | Home
TitleAcme ==
    <<" ","A","c","m","e"," ","I","n","c"," ","|"," ","H","o","m","e"," ">>
\* N/A
TitleNA ==
    <<"N","/","A">>

(***************************************************************************)
(* extract_emails                                                          *)
(***************************************************************************)
LocalChars ==
    Letters \cup Digits \cup {".", "_", "%", "+", "-"}

HostChars ==
    Letters \cup Digits \cup {".", "-"}

\* re.fullmatch(EMAIL_REGEX, s):
\* [a-zA-Z0-9._%+-]+@[a-zA-Z0-9.-]+\.[a-zA-Z]{2,}
FullMatchEmail(s) ==
    \E at \in 2..Len(s) : \E dot \in (at + 2)..(Len(s) - 2) :
        /\ s[at] = "@"
        /\ s[dot] = "."
        /\ \A i \in 1..(at - 1) : LowerChar(s[i]) \in LocalChars
        /\ \A i \in (at + 1)..(dot - 1) : LowerChar(s[i]) \in HostChars
        /\ \A i \in (dot + 1)..Len(s) : LowerChar(s[i]) \in Letters

\* href[7:].split('?')[0]
email_part(href) ==
    LET rest == From(href, 8)
    IN  SubSeq(rest, 1, FirstOf(rest, {"?"}, 1) - 1)

extract_emails(s) ==
    IF s = <<>> THEN {}
    ELSE s[1].text_emails \cup
         {email_part(s[1].anchors[i].href) :
             i \in {j \in 1..Len(s[1].anchors) :
                      /\ StartsWith(s[1].anchors[j].href, K_mailto)
                      /\ FullMatchEmail(email_part(s[1].anchors[j].href))}}

(***************************************************************************)
(* fetch_page and parse_html.  A reply is what the network gives for one   *)
(* request: [status, parses, doc].                                         *)
(***************************************************************************)
FetchFailures ==
    {"timeout", "http_error", "network_error", "unexpected"}

EmptyDoc ==
    Document(FALSE, <<>>)

Reply(status, parses, doc) ==
    [status |-> status, parses |-> parses, doc |-> doc]

\* the replies a request can get when the site serves the pages in docs
Replies(docs) ==
    {Reply(s, FALSE, EmptyDoc) : s \in FetchFailures}
    \cup {Reply("ok", FALSE, EmptyDoc)}
    \cup {Reply("ok", TRUE, d) : d \in docs}

\* the response object, <<>> for None
fetch_page(reply) ==
    IF reply.status = "ok" THEN <<reply>> ELSE <<>>

\* the soup, <<>> for None
parse_html(response) ==
    IF response = <<>> THEN <<>>
    ELSE IF response[1].parses THEN <<response[1].doc>>
    ELSE <<>>

(***************************************************************************)
(* summarize_text                                                          *)
(***************************************************************************)
\* what generate_content does: parts, an empty or blocked response, or an
\* exception
ServiceOutcomes ==
    {"parts", "blocked", "exception"}

\* texts shorter than this are not summarized
MinSummaryLen ==
    75

ApiKeyError ==
    <<"API Key Error: GOOGLE_API_KEY not set.">>

\* summarize_text without the minimum-length return
summarize_text_NoLengthCheck(text_to_summarize, api_key, service) ==
    IF ~api_key THEN ApiKeyError
    ELSE CASE service = "parts" -> <<"summary">>
           [] service = "blocked" -> None
           [] service = "exception" -> <<"Error: e">>

summarize_text(text_to_summarize, api_key, service) ==
    IF ~api_key THEN ApiKeyError
    ELSE IF text_to_summarize = None \/ TextLen(text_to_summarize) < MinSummaryLen
    THEN None
    ELSE CASE service = "parts" -> <<"summary">>
           [] service = "blocked" -> None
           [] service = "exception" -> <<"Error: e">>

(***************************************************************************)
(* run_scraping_only                                                       *)
(***************************************************************************)
NewResults(target_url) ==
    [url |-> target_url, title |-> TitleNA, emails |-> {},
     social_links |-> {}, about_text |-> None, about_summary |-> None,
     technologies |-> {}, processing_time |-> 0]

\* homepage_soup.title.string.strip() if ... else "N/A"; a document without
\* a title element or with an empty one has title <<>>
TitleOf(doc) ==
    IF doc.title # <<>> THEN Strip(doc.title) ELSE TitleNA

\* the body with the Contact block placed before the About block
StageOrder_ContactFirst ==
    <<"homepage", "contact", "about", "finish">>

\* the stages of the function body in program order
StageOrder ==
    <<"homepage", "about", "contact", "finish">>

\* the stage that follows stage in the body
NextStage(stage) ==
    LET i == CHOOSE k \in 1..Len(StageOrder) : StageOrder[k] = stage
    IN  IF i < Len(StageOrder) THEN StageOrder[i + 1] ELSE "returned"

\* the homepage stage without the merge of the homepage's emails
HomepageResults_NoEmails(r, homepage_soup, l) ==
    [r EXCEPT !.title = TitleOf(homepage_soup[1]),
              !.social_links = l.social]

\* results after the homepage stage found a soup
HomepageResults(r, homepage_soup, l) ==
    [r EXCEPT !.title = TitleOf(homepage_soup[1]),
              !.emails = r.emails \cup extract_emails(homepage_soup),
              !.social_links = l.social]

\* the early return without the elapsed time
HomepageFailed_NoTime(r, time, start) ==
    r

\* results when the homepage could not be fetched or parsed
HomepageFailed(r, time, start) ==
    [r EXCEPT !.processing_time = time - start]

\* the About stage putting a placeholder text when the page has no soup
AboutResults_TextOnFailure(r, about_soup, api_key, service) ==
    IF about_soup = <<>> THEN [r EXCEPT !.about_text = Run("x", 3)]
    ELSE LET text == extract_relevant_text(about_soup)
         IN  [r EXCEPT !.about_text = text,
                       !.about_summary =
                           IF text # None
                           THEN summarize_text(text, api_key, service)
                           ELSE r.about_summary,
                       !.emails = r.emails \cup extract_emails(about_soup)]

\* results after the About stage
AboutResults(r, about_soup, api_key, service) ==
    IF about_soup = <<>> THEN r
    ELSE LET text == extract_relevant_text(about_soup)
         IN  [r EXCEPT !.about_text = text,
                       !.about_summary =
                           IF text # None
                           THEN summarize_text(text, api_key, service)
                           ELSE r.about_summary,
                       !.emails = r.emails \cup extract_emails(about_soup)]

\* the Contact stage assigning the page's emails instead of merging them
ContactResults_Overwrite(r, contact_soup) ==
    IF contact_soup = <<>> THEN r
    ELSE [r EXCEPT !.emails = extract_emails(contact_soup)]

\* results after the Contact stage
ContactResults(r, contact_soup) ==
    IF contact_soup = <<>> THEN r
    ELSE [r EXCEPT !.emails = r.emails \cup extract_emails(contact_soup)]

\* what one visit of a page gave: kept for the properties, not by the code
Visit(page, url, response, s) ==
    [page |-> page, url |-> url, fetched |-> response # <<>>,
     parsed |-> s # <<>>, emails |-> extract_emails(s),
     text |-> IF page = "about" THEN extract_relevant_text(s) ELSE None]

\* the pages the site can serve
Page(title, text_emails, as, children) ==
    [body |-> TRUE, children |-> children, title |-> title,
     text_emails |-> text_emails, anchors |-> as]

Mailto(href) ==
    [text |-> <<"m","a","i","l">>, href |-> href]

HomeAnchorPool ==
    {Anchor1, Anchor6, Anchor7, Anchor12, Mailto(MailtoInfo)}

HomePages ==
    {Page(t, es, as, <<>>) :
        t \in {<<>>, TitleAcme},
        es \in {{}, {EmailSales}},
        as \in UNION {[1..n -> HomeAnchorPool] : n \in 0..MaxHomeAnchors}}

AboutBodies ==
    {<<>>,
     <<Element("p", "", "", "", <<Run(" ", 3)>>)>>,
     <<Element("p", "", "", "", <<Run("t", 60)>>)>>,
     <<Element("p", "", "", "", <<Run("t", 74)>>)>>,
     <<Element("p", "", "", "", <<Run("t", 75)>>)>>,
     <<Element("p", "", "", "", <<Run("t", 76)>>)>>,
     <<Element("main", "", "", "", <<Run("p", 250)>>),
       Element("article", "", "", "", <<Run("s", 500)>>)>>}

AboutPages ==
    {Page(<<>>, ea[1], ea[2], cs) :
        ea \in {<<{}, <<>> >>, <<{EmailJobs}, <<>> >>,
                <<{}, <<Mailto(MailtoInfo)>> >>},
        cs \in AboutBodies}
    \cup {EmptyDoc}

ContactPages ==
    {Page(<<>>, ea[1], ea[2], <<>>) :
        ea \in {<<{}, <<>> >>, <<{EmailSales}, <<>> >>,
                <<{}, <<Mailto(MailtoJobs)>> >>,
                <<{EmailJobs}, <<Mailto(MailtoBad)>> >>}}


\* the URL the analysis is asked for
TargetUrls ==
    {BaseRoot}


(***************************************************************************)
(* get_agent_answer and the question handler of app.py                     *)
(***************************************************************************)
\* API Key Error: Ensure GOOGLE_API_KEY and TAVILY_API_KEY are set.
AgentApiKeyError ==
    <<"A","P","I"," ","K","e","y"," ","E","r","r","o","r",":"," ","E","n","s","u","r","e"," ","G","O","O","G","L","E","_","A","P","I","_","K","E","Y"," ","a","n","d"," ","T","A","V","I","L","Y","_","A","P","I","_","K","E","Y"," ","a","r","e"," ","s","e","t",".">>
\* Error initializing AI Agent: 
ErrorInitializingPrefix ==
    <<"E","r","r","o","r"," ","i","n","i","t","i","a","l","i","z","i","n","g"," ","A","I"," ","A","g","e","n","t",":"," ">>
\* Error during AI Agent processing: 
ErrorProcessingPrefix ==
    <<"E","r","r","o","r"," ","d","u","r","i","n","g"," ","A","I"," ","A","g","e","n","t"," ","p","r","o","c","e","s","s","i","n","g",":"," ">>
\* Agent did not provide an output.
NoOutputAnswer ==
    <<"A","g","e","n","t"," ","d","i","d"," ","n","o","t"," ","p","r","o","v","i","d","e"," ","a","n"," ","o","u","t","p","u","t",".">>
\* Error:
K_Error_colon ==
    <<"E","r","r","o","r",":">>
\* Acme was founded in 2010.
AnswerFounded ==
    <<"A","c","m","e"," ","w","a","s"," ","f","o","u","n","d","e","d"," ","i","n"," ","2","0","1","0",".">>
\* Agent stopped due to iteration limit or time limit.
AnswerIterationLimit ==
    <<"A","g","e","n","t"," ","s","t","o","p","p","e","d"," ","d","u","e"," ","t","o"," ","i","t","e","r","a","t","i","o","n"," ","l","i","m","i","t"," ","o","r"," ","t","i","m","e"," ","l","i","m","i","t",".">>
\* Connection refused
MsgConnectionRefused ==
    <<"C","o","n","n","e","c","t","i","o","n"," ","r","e","f","u","s","e","d">>
\* ValueError: bad key
MsgValueError ==
    <<"V","a","l","u","e","E","r","r","o","r",":"," ","b","a","d"," ","k","e","y">>

\* the environment variables the code reads, as the set of those that are set
CredentialNames ==
    {"GOOGLE_API_KEY", "TAVILY_API_KEY"}

\* _agent_executor = None
NoExecutor ==
    0

\* the messages of the exceptions the libraries raise
ExceptionMessages ==
    {MsgConnectionRefused, MsgValueError}

\* building the executor: <<>> when it succeeds, <<e>> when a constructor
\* or hub.pull raises e
ConstructOutcomes ==
    {<<>>} \cup {<<e>> : e \in ExceptionMessages}

\* _agent_executor.invoke: a response with an output, a response without
\* the "output" key, or an exception
InvokeOutcomes ==
    {[kind |-> "output", text |-> a] : a \in {AnswerFounded, AnswerIterationLimit}}
    \cup {[kind |-> "no_output", text |-> <<>>]}
    \cup {[kind |-> "raises", text |-> e] : e \in ExceptionMessages}

\* the try block around invoke
InvokeAgent(invoke) ==
    CASE invoke.kind = "output" -> invoke.text
      [] invoke.kind = "no_output" -> NoOutputAnswer
      [] invoke.kind = "raises" -> ErrorProcessingPrefix \o invoke.text

\* the outcome of one call: the executor held afterwards, the returned
\* value, and which parts of the body ran
Outcome(executor, ret, path, init_attempted, built, invoked) ==
    [executor |-> executor, ret |-> ret, path |-> path,
     init_attempted |-> init_attempted, built |-> built, invoked |-> invoked]

\* get_agent_answer without the "is None" test: the executor is built again
\* on every call
get_agent_answer_AlwaysInit(executor, env, construct, invoke, fresh) ==
    IF ~ CredentialNames \subseteq env
    THEN Outcome(executor, AgentApiKeyError, "credential_missing",
                 TRUE, FALSE, FALSE)
    ELSE IF construct # <<>>
    THEN Outcome(executor, ErrorInitializingPrefix \o construct[1],
                 "init_failure", TRUE, FALSE, FALSE)
    ELSE Outcome(fresh, InvokeAgent(invoke),
                 IF invoke.kind = "raises" THEN "agent_failure" ELSE "answer",
                 TRUE, TRUE, TRUE)

\* get_agent_answer(agent_input_prompt) with the module-level
\* _agent_executor, the credentials set in the environment, and what the libraries do; fresh is the
\* executor object a successful construction creates
get_agent_answer(executor, env, construct, invoke, fresh) ==
    IF executor = NoExecutor
    THEN IF ~ CredentialNames \subseteq env
         THEN Outcome(executor, AgentApiKeyError, "credential_missing",
                      TRUE, FALSE, FALSE)
         ELSE IF construct # <<>>
         THEN Outcome(executor, ErrorInitializingPrefix \o construct[1],
                      "init_failure", TRUE, FALSE, FALSE)
         ELSE Outcome(fresh, InvokeAgent(invoke),
                      IF invoke.kind = "raises" THEN "agent_failure"
                      ELSE "answer",
                      TRUE, TRUE, TRUE)
    ELSE Outcome(executor, InvokeAgent(invoke),
                 IF invoke.kind = "raises" THEN "agent_failure" ELSE "answer",
                 FALSE, FALSE, TRUE)

\* the display of the latest answer: nothing, st.error or st.info
Display(answer) ==
    IF answer = None THEN "nothing"
    ELSE IF Contains(answer, K_Error_colon) THEN "st.error"
    ELSE "st.info"

\* one call, as recorded for the properties
Call(fn, env, executor_before, o) ==
    [fn |-> fn, environ |-> env, executor_before |-> executor_before,
     executor_after |-> o.executor, ret |-> o.ret, path |-> o.path,
     init_attempted |-> o.init_attempted, built |-> o.built,
     invoked |-> o.invoked]

\* the texts handed to summarize_text
SummaryTexts ==
    {None, Run("t", 60), Run("t", 75), Run("t", 250)}

IdleAgent ==
    /\ agent_executor = NoExecutor
    /\ environ = {}
    /\ builds = 0
    /\ call_log = <<>>
    /\ latest_ai_answer = None
    /\ shown = "nothing"

IdleText ==
    /\ soup = <<>>
    /\ text_pc = "idle"
    /\ text_result = None

IdleRun ==
    /\ pc = "idle"
    /\ results = NewResults(BaseRoot)
    /\ links_dict = EmptyLinks
    /\ visited = <<>>
    /\ now = 0
    /\ start_time = 0
    /\ google_api_key = FALSE

IdleLinks ==
    /\ anchors = <<>>
    /\ base_url = BaseRoot
    /\ idx = 1
    /\ links = EmptyLinks

Ticks ==
    1..MaxTick

Init ==
    /\ pc = "idle"
    /\ results = NewResults(BaseRoot)
    /\ links_dict = EmptyLinks
    /\ visited = <<>>
    /\ now \in {0, MaxTick}
    /\ start_time = 0
    /\ google_api_key \in BOOLEAN
    /\ IdleLinks
    /\ IdleText
    /\ IdleAgent

\* start_time = time.time(); results = {...}
Start ==
    /\ pc = "idle"
    /\ \E target_url \in TargetUrls : results' = NewResults(target_url)
    /\ start_time' = now
    /\ pc' = Head(StageOrder)
    /\ UNCHANGED <<links_dict, visited, now, google_api_key, linkVars, textVars, agentVars>>

\* the homepage: fetch, parse, and either the early return or title,
\* emails and links
ProcessHomepage ==
    /\ pc = "homepage"
    /\ \E reply \in Replies(HomePages), dt \in Ticks :
        LET homepage_response == fetch_page(reply)
            homepage_soup == parse_html(homepage_response)
            l == IF homepage_soup = <<>> THEN EmptyLinks
                 ELSE find_relevant_links(homepage_soup[1].anchors, results.url)
        IN  /\ now' = now + dt
            /\ visited' = Append(visited,
                   Visit("home", results.url, homepage_response, homepage_soup))
            /\ IF homepage_soup = <<>>
               THEN /\ results' = HomepageFailed(results, now', start_time)
                    /\ pc' = "returned"
                    /\ UNCHANGED links_dict
               ELSE /\ results' = HomepageResults(results, homepage_soup, l)
                    /\ links_dict' = l
                    /\ pc' = NextStage(pc)
    /\ UNCHANGED <<start_time, google_api_key, linkVars, textVars, agentVars>>

\* the About page, when a link to it was found
ProcessAbout ==
    /\ pc = "about"
    /\ IF links_dict.about # None
       THEN \E reply \in Replies(AboutPages), dt \in Ticks,
               service \in ServiceOutcomes :
            LET about_response == fetch_page(reply)
                about_soup == parse_html(about_response)
            IN  /\ now' = now + dt
                /\ visited' = Append(visited,
                       Visit("about", links_dict.about, about_response, about_soup))
                /\ results' = AboutResults(results, about_soup,
                                           google_api_key, service)
       ELSE UNCHANGED <<now, visited, results>>
    /\ pc' = NextStage(pc)
    /\ UNCHANGED <<links_dict, start_time, google_api_key, linkVars, textVars, agentVars>>

\* the Contact page, when a link to it was found
ProcessContact ==
    /\ pc = "contact"
    /\ IF links_dict.contact # None
       THEN \E reply \in Replies(ContactPages), dt \in Ticks :
            LET contact_response == fetch_page(reply)
                contact_soup == parse_html(contact_response)
            IN  /\ now' = now + dt
                /\ visited' = Append(visited,
                       Visit("contact", links_dict.contact, contact_response,
                             contact_soup))
                /\ results' = ContactResults(results, contact_soup)
       ELSE UNCHANGED <<now, visited, results>>
    /\ pc' = NextStage(pc)
    /\ UNCHANGED <<links_dict, start_time, google_api_key, linkVars, textVars, agentVars>>

\* results['processing_time'] = time.time() - start_time; return results
Finish ==
    /\ pc = "finish"
    /\ results' = [results EXCEPT !.processing_time = now - start_time]
    /\ pc' = NextStage(pc)
    /\ UNCHANGED <<links_dict, visited, now, start_time, google_api_key,
                   linkVars, textVars, agentVars>>

Next ==
    \/ Start
    \/ ProcessHomepage
    \/ ProcessAbout
    \/ ProcessContact
    \/ Finish

Spec ==
    Init /\ [][Next]_vars

(***************************************************************************)
(* Specification of find_relevant_links: one step per anchor               *)
(***************************************************************************)
InitLinks ==
    /\ anchors \in AnchorSeqs
    /\ base_url \in BaseUrls
    /\ idx = 1
    /\ links = EmptyLinks
    /\ IdleText
    /\ IdleRun
    /\ IdleAgent

LinkStep ==
    /\ idx <= Len(anchors)
    /\ links' = LinkBody(links, anchors[idx], base_url)
    /\ idx' = idx + 1
    /\ UNCHANGED <<anchors, base_url, textVars, runVars, agentVars>>

NextLinks ==
    LinkStep

SpecLinks ==
    InitLinks /\ [][NextLinks]_vars

(***************************************************************************)
(* Specification of extract_relevant_text: one call on a document          *)
(***************************************************************************)
InitText ==
    /\ soup \in {<<>>} \cup {<<d>> : d \in TextDocs}
    /\ text_pc = "call"
    /\ text_result = None
    /\ IdleLinks
    /\ IdleRun
    /\ IdleAgent

ExtractText ==
    /\ text_pc = "call"
    /\ text_result' = extract_relevant_text(soup)
    /\ text_pc' = "returned"
    /\ UNCHANGED <<soup, linkVars, runVars, agentVars>>

NextText ==
    ExtractText

SpecText ==
    InitText /\ [][NextText]_vars

(***************************************************************************)
(* Specification of the AI calls of one process: questions asked through   *)
(* the handler of app.py, summaries, and changes of the environment        *)
(***************************************************************************)
InitAgent ==
    /\ agent_executor = NoExecutor
    /\ environ \in SUBSET CredentialNames
    /\ builds = 0
    /\ call_log = <<>>
    /\ latest_ai_answer = None
    /\ shown = "nothing"
    /\ IdleLinks
    /\ IdleText
    /\ IdleRun

\* a credential is set or unset between two calls
SetEnviron ==
    /\ \E e \in SUBSET CredentialNames :
          /\ e # environ
          /\ environ' = e
    /\ UNCHANGED <<agent_executor, builds, call_log, latest_ai_answer, shown,
                   linkVars, textVars, runVars>>

\* handle_ai_question with the button pressed and a question entered: the
\* call of get_agent_answer, the stored answer and its display after the rerun
handle_ai_question ==
    /\ Len(call_log) < MaxCalls
    /\ \E construct \in ConstructOutcomes, invoke \in InvokeOutcomes :
          LET o == get_agent_answer(agent_executor, environ, construct, invoke,
                                    builds + 1)
          IN  /\ agent_executor' = o.executor
              /\ builds' = IF o.executor # agent_executor THEN builds + 1
                           ELSE builds
              /\ latest_ai_answer' = o.ret
              /\ shown' = Display(o.ret)
              /\ call_log' = Append(call_log,
                     Call("get_agent_answer", environ, agent_executor, o))
    /\ UNCHANGED <<environ, linkVars, textVars, runVars>>

\* a call of summarize_text
SummarizeCall ==
    /\ Len(call_log) < MaxCalls
    /\ \E text \in SummaryTexts, service \in ServiceOutcomes :
          LET ret == summarize_text(text, "GOOGLE_API_KEY" \in environ, service)
          IN  call_log' = Append(call_log,
                  Call("summarize_text", environ, agent_executor,
                       Outcome(agent_executor, ret, "summary",
                               FALSE, FALSE, FALSE)))
    /\ UNCHANGED <<agent_executor, environ, builds, latest_ai_answer, shown,
                   linkVars, textVars, runVars>>

NextAgent ==
    \/ SetEnviron
    \/ handle_ai_question
    \/ SummarizeCall

SpecAgent ==
    InitAgent /\ [][NextAgent]_vars

(***************************************************************************)
(* Properties of run_scraping_only (specification Spec)                    *)
(***************************************************************************)
\* the visits of a page kind, as positions in visited
VisitsOf(page) ==
    {i \in 1..Len(visited) : visited[i].page = page}

HomepageParsed ==
    /\ Len(visited) >= 1
    /\ visited[1].page = "home"
    /\ visited[1].parsed

\* C1 as stated: about_summary is populated only if about_text is present
\* and longer than 75 characters, whatever the credentials and the
\* summarization service do (so a text of 60 characters never has a summary).
C1_SummaryOnlyIfLongerThan75 ==
    results.about_summary # None =>
        /\ results.about_text # None
        /\ TextLen(results.about_text) > 75

\* C1 amended: about_summary is populated only if about_text is present and
\* either the text has at least 75 characters or GOOGLE_API_KEY is not set;
\* without the key every extracted text, however short, gets the API key
\* error marker as its summary, and with the key a text shorter than 75
\* characters gets none.
C1_SummaryOnlyIfLongOrKeyMissing ==
    /\ results.about_summary # None =>
          /\ results.about_text # None
          /\ \/ TextLen(results.about_text) >= 75
             \/ ~google_api_key
    /\ (results.about_text # None /\ ~google_api_key) =>
          results.about_summary = ApiKeyError
    /\ (google_api_key /\ TextLen(results.about_text) < 75) =>
          results.about_summary = None

\* an About text of 60 characters with the key set: text kept, no summary
C1_Witness ==
    /\ pc = "returned"
    /\ google_api_key
    /\ results.about_text # None
    /\ TextLen(results.about_text) = 60
    /\ results.about_summary = None

\* C2: about_text is populated exactly when an About link was found and the
\* About page was fetched, parsed and gave a text on extraction; it then is
\* that text.
C2_AboutTextOnlyFromAboutPage ==
    /\ results.about_text # None =>
          /\ links_dict.about # None
          /\ \E i \in VisitsOf("about") :
                /\ visited[i].url = links_dict.about
                /\ visited[i].fetched
                /\ visited[i].parsed
                /\ visited[i].text # None
                /\ results.about_text = visited[i].text
    /\ \A i \in VisitsOf("about") :
          (visited[i].fetched /\ visited[i].parsed /\ visited[i].text # None)
              => results.about_text # None

C2_Witness ==
    /\ pc = "returned"
    /\ results.about_text # None
    /\ \E i \in VisitsOf("about") : visited[i].parsed

C4_Returned ==
    (pc = "returned" /\ HomepageParsed) =>
        /\ links_dict.contact # None =>
              \E i \in VisitsOf("contact") : visited[i].url = links_dict.contact
        /\ \A i \in 1..Len(visited) :
              visited[i].parsed => visited[i].emails \subseteq results.emails
        /\ \A i \in VisitsOf("about") :
              visited[i].parsed => results.about_text = visited[i].text

\* C4, step part: the Contact stage, failing or not, leaves what the
\* homepage and the About page contributed.
C4_ContactStep ==
    pc = "contact" =>
        /\ results'.title = results.title
        /\ results'.social_links = results.social_links
        /\ results'.about_text = results.about_text
        /\ results'.about_summary = results.about_summary
        /\ results.emails \subseteq results'.emails

\* C4: failures are local to the page once the homepage has been parsed.
C4_FailuresArePageLocal ==
    []C4_Returned /\ [][C4_ContactStep]_vars

\* the About page failed, the Contact page still gave its emails
C4_Witness ==
    /\ pc = "returned"
    /\ \E i \in VisitsOf("about") : ~visited[i].parsed
    /\ \E i \in VisitsOf("contact") :
          /\ visited[i].parsed
          /\ visited[i].emails # {}
          /\ visited[i].emails \subseteq results.emails
    /\ \E e \in results.emails : \A i \in VisitsOf("contact") : e \notin visited[i].emails

PageRank(page) ==
    CASE page = "home" -> 1 [] page = "about" -> 2 [] page = "contact" -> 3

\* C5: the fetches of one analysis are homepage, then About, then Contact:
\* at most three, each page at most once, in that order, the homepage
\* first, and no other page unless the homepage was fetched and parsed.
C5_FetchOrder ==
    /\ Len(visited) <= 3
    /\ \A i, j \in 1..Len(visited) :
          i < j => PageRank(visited[i].page) < PageRank(visited[j].page)
    /\ Len(visited) >= 1 => visited[1].page = "home"
    /\ Len(visited) >= 2 => (visited[1].fetched /\ visited[1].parsed)

C5_Witness ==
    /\ pc = "returned"
    /\ Len(visited) = 3

\* C6: the emails of the result are the union of the emails extracted from
\* the pages that were fetched and parsed.
C6_EmailsAreUnionOfParsedPages ==
    results.emails =
        UNION {visited[i].emails :
                  i \in {j \in 1..Len(visited) :
                            visited[j].fetched /\ visited[j].parsed}}

\* three parsed pages, three distinct addresses, one of them found twice
C6_Witness ==
    /\ pc = "returned"
    /\ Len(visited) = 3
    /\ \A i \in 1..3 : visited[i].parsed /\ visited[i].emails # {}
    /\ Cardinality(results.emails) = 3
    /\ \E i, j \in 1..3 : i # j /\ visited[i].emails \cap visited[j].emails # {}

(***************************************************************************)
(* Properties of find_relevant_links (specification SpecLinks)             *)
(***************************************************************************)
\* the anchor is neither skipped nor dropped by a URL error
Processed(a) ==
    /\ ~IsSkipped(a.href)
    /\ ~UrlRaises(a.href)

\* the anchors already scanned that qualify for the About / Contact slot
AboutQualifying ==
    {k \in 1..(idx - 1) :
        /\ Processed(anchors[k])
        /\ is_about_link(Strip(Lower(anchors[k].text)), Lower(anchors[k].href))}

ContactQualifying ==
    {k \in 1..(idx - 1) :
        /\ Processed(anchors[k])
        /\ is_contact_link(Strip(Lower(anchors[k].text)), Lower(anchors[k].href))}

Resolve(k) ==
    urljoin(base_url, anchors[k].href)

\* C7, state part: each slot holds the resolved URL of the first qualifying
\* anchor in document order, None when no anchor qualifies, and the About
\* slot does not depend on the Contact anchors nor the reverse.
C7_FirstQualifying ==
    /\ links.about = IF AboutQualifying = {} THEN None
                     ELSE Resolve(Min(AboutQualifying))
    /\ links.contact = IF ContactQualifying = {} THEN None
                       ELSE Resolve(Min(ContactQualifying))

\* C7, step part: a filled slot is never overwritten.
C7_NoOverwrite ==
    /\ links.about # None => links'.about = links.about
    /\ links.contact # None => links'.contact = links.contact

\* C7: at most one About and one Contact URL, first qualifying anchor wins.
C7_FirstWins ==
    []C7_FirstQualifying /\ [][C7_NoOverwrite]_vars

\* two About-qualifying anchors A then B with different URLs: about is A's
C7_Witness ==
    /\ idx > Len(anchors)
    /\ Cardinality(AboutQualifying) = 2
    /\ Resolve(Min(AboutQualifying)) # Resolve(Max(AboutQualifying))
    /\ links.about = Resolve(Min(AboutQualifying))

\* the exclusion terms and segment names as the specification lists them
SocialExclusionTerms ==
    {K_share, K_intent, K_addtoany, K_login, K_post, K_status, K_jobs,
     K_careers, K_legal, K_privacy}

\* the parts of a path between its slashes, empty ones included
RECURSIVE Split(_)
Split(path) ==
    LET slash == FirstOf(path, {"/"}, 1)
    IN  IF slash > Len(path) THEN <<path>>
        ELSE <<SubSeq(path, 1, slash - 1)>> \o Split(From(path, slash + 1))

NonEmptyParts(path) ==
    SelectSeq(Split(path), LAMBDA seg : seg # <<>>)

ProfileLike(path) ==
    \/ Len(NonEmptyParts(path)) <= 2
    \/ \E i \in 1..Len(NonEmptyParts(path)) :
           NonEmptyParts(path)[i] \in ProfileSegments

\* the host of a URL: its netloc without user information and port
Host(u) ==
    LET n == Netloc(u)
        ats == {i \in 1..Len(n) : n[i] = "@"}
        h == IF ats = {} THEN n ELSE From(n, Max(ats) + 1)
    IN  SubSeq(h, 1, FirstOf(h, {":"}, 1) - 1)

StripLeadingWww(h) ==
    IF StartsWith(h, K_www) THEN From(h, Len(K_www) + 1) ELSE h

\* the Social rule as the specification words it
StatedSocialRule(u) ==
    /\ \E d \in SOCIAL_DOMAINS : Contains(StripLeadingWww(Host(u)), d)
    /\ ~ \E term \in SocialExclusionTerms : Contains(Lower(Path(u)), term)
    /\ ProfileLike(Lower(Path(u)))

\* an exclusion term right after a slash of the path
TermAfterSlash(path) ==
    \E i \in 1..Len(path) : \E term \in SocialExclusionTerms :
        /\ path[i] = "/"
        /\ StartsWith(From(path, i + 1), term)

\* the Social rule as amended
AmendedSocialRule(u) ==
    /\ \E d \in SOCIAL_DOMAINS : Contains(Remove(Netloc(u), K_www), d)
    /\ ~TermAfterSlash(Lower(Path(u)))
    /\ ProfileLike(Lower(Path(u)))

\* C8 as stated: the social set holds exactly the resolved URLs of the
\* scanned anchors whose host, stripped of a leading "www.", contains a
\* social domain, whose path contains none of the exclusion terms and whose
\* path is profile-like.
C8_SocialRuleAsStated ==
    /\ \A u \in links.social : StatedSocialRule(u)
    /\ \A k \in 1..(idx - 1) :
          (Processed(anchors[k]) /\ StatedSocialRule(Resolve(k)))
              => Resolve(k) \in links.social

\* C8 amended: the social set holds exactly the resolved URLs of the scanned
\* anchors whose netloc, with every "www." removed, contains a social
\* domain, whose lower-cased path has none of the exclusion terms right
\* after a slash ("/share", "/intent", ...), and whose lower-cased path is
\* profile-like; an exclusion term elsewhere in a path segment does not
\* exclude the link.
C8_SocialRuleAmended ==
    /\ \A u \in links.social :
          /\ AmendedSocialRule(u)
          /\ \E k \in 1..(idx - 1) : Processed(anchors[k]) /\ Resolve(k) = u
    /\ \A k \in 1..(idx - 1) :
          (Processed(anchors[k]) /\ AmendedSocialRule(Resolve(k)))
              => Resolve(k) \in links.social

\* /share?foo was scanned and left out, while a URL with "share" inside a
\* path segment is in the set
C8_Witness ==
    /\ idx > Len(anchors)
    /\ \E k \in 1..(idx - 1) :
          /\ Contains(Path(Resolve(k)), K_slash_share)
          /\ Resolve(k) \notin links.social
    /\ \E u \in links.social : Contains(Path(u), K_share)

\* s with every hyphen replaced by a space
Dehyphen(s) ==
    [i \in 1..Len(s) |-> IF s[i] = "-" THEN " " ELSE s[i]]

AboutWords ==
    {K_about, K_company, K_who_we_are}

\* the About rule as the specification words it: one of the words in the
\* visible text or in the href, whatever the case and the hyphens, and no
\* exclusion term in the href
StatedAboutRule(a) ==
    /\ \E w \in AboutWords :
          \/ Contains(Dehyphen(Lower(a.text)), w)
          \/ Contains(Dehyphen(Lower(a.href)), w)
    /\ ~ \E term \in AboutExclusions : Contains(Lower(a.href), term)

\* the About rule as amended
AmendedAboutRule(a) ==
    /\ \/ \E w \in AboutWords : Contains(Lower(a.text), w)
       \/ \E w \in {K_slash_about, K_who_we_are_hyphen} :
              Contains(Lower(a.href), w)
    /\ ~ \E term \in AboutExclusions : Contains(Lower(a.href), term)

\* the first anchor scanned so far that is processed and satisfies rule
FirstCandidate(rule(_)) ==
    LET cands == {k \in 1..(idx - 1) : Processed(anchors[k]) /\ rule(anchors[k])}
    IN  IF cands = {} THEN None ELSE Resolve(Min(cands))

\* C13 as stated: the About candidates are the processed anchors whose text
\* or href contains "about", "company" or "who we are" (case- and
\* hyphen-insensitive) and whose href has no exclusion term; the first of
\* them in document order fills the About slot.
C13_AboutRuleAsStated ==
    links.about = FirstCandidate(StatedAboutRule)

\* C13 amended: the About candidates are the processed anchors whose
\* lower-cased text contains "about", "company" or "who we are", or whose
\* lower-cased href contains "/about" or "who-we-are", and whose lower-cased
\* href has no exclusion term; the first of them fills the About slot, and
\* an anchor whose href has an exclusion term never does.
C13_AboutRuleAmended ==
    /\ links.about = FirstCandidate(AmendedAboutRule)
    /\ \A k \in 1..(idx - 1) :
          (\E term \in AboutExclusions : Contains(Lower(anchors[k].href), term))
              => (links.about = None \/ \E j \in 1..(idx - 1) :
                     /\ j # k
                     /\ AmendedAboutRule(anchors[j])
                     /\ links.about = Resolve(j))

\* an anchor with "about" in its href but no slash before it comes first
\* and is passed over; the slot goes to a later anchor
C13_Witness ==
    /\ idx > Len(anchors)
    /\ Len(anchors) = 2
    /\ Processed(anchors[1])
    /\ Contains(Lower(anchors[1].href), K_about)
    /\ ~ \E term \in AboutExclusions : Contains(Lower(anchors[1].href), term)
    /\ ~AmendedAboutRule(anchors[1])
    /\ links.about = Resolve(2)

(***************************************************************************)
(* Properties of extract_relevant_text (specification SpecText)            *)
(***************************************************************************)
\* the selectors, by position in the list, whose first matching element has
\* a text longer than 200 characters
QualifyingSelectors(doc) ==
    {k \in 1..Len(selectors) :
        /\ select_one(doc, selectors[k]) # <<>>
        /\ TextLen(get_text(select_one(doc, selectors[k])[1])) > 200}

\* the text of selector k, normalized
SelectorText(doc, k) ==
    Normalize(get_text(select_one(doc, selectors[k])[1]))

\* some text node outside the noise elements has a visible character
HasVisibleText(doc) ==
    \E i \in 1..Len(doc.children) :
        /\ ~ \E sel \in noise_selectors : Matches(doc.children[i], sel)
        /\ \E j \in 1..Len(doc.children[i].strings) :
              \E r \in 1..Len(doc.children[i].strings[j]) :
                  ~IsWs(doc.children[i].strings[j][r].c)

\* C9: the result is the text of the first selector, in the order of the
\* list, whose element has more than 200 characters, whatever the length of
\* the texts of later selectors; without such a selector the result comes
\* from the cleaned body or is absent.
C9_FirstQualifyingSelectorWins ==
    (text_pc = "returned" /\ soup # <<>>) =>
        LET q == QualifyingSelectors(soup[1])
        IN  IF q # {} THEN text_result = SelectorText(soup[1], Min(q))
            ELSE text_result \in
                    {None, Normalize(JoinStripped(CleanedStrings(soup[1].children)))}

\* a secondary selector's 500 characters come first in the document, the
\* primary container's 250 characters are returned
C9_Witness ==
    /\ text_pc = "returned"
    /\ soup # <<>>
    /\ Cardinality(QualifyingSelectors(soup[1])) = 2
    /\ soup[1].children[1].tag = "article"
    /\ soup[1].children[2].tag = "main"
    /\ TextLen(get_text(soup[1].children[1])) = 500
    /\ text_result = Normalize(get_text(soup[1].children[2]))
    /\ TextLen(text_result) = 250

\* C10 as stated: for a document with a body the result is never absent.
C10_AbsentOnlyWithoutBody ==
    (text_pc = "returned" /\ soup # <<>> /\ soup[1].body) => text_result # None

\* C10 amended: the result is absent exactly when the document has no body,
\* or no selector qualifies and the body holds no visible text outside its
\* noise elements; in every other case it is a non-empty normalized text.
C10_AbsentIffNoText ==
    (text_pc = "returned" /\ soup # <<>>) =>
        (text_result = None <=>
            ~ /\ soup[1].body
              /\ \/ QualifyingSelectors(soup[1]) # {}
                 \/ HasVisibleText(soup[1]))

\* a body whose only content is a navigation element: absent
C10_Witness ==
    /\ text_pc = "returned"
    /\ soup # <<>>
    /\ soup[1].body
    /\ soup[1].children # <<>>
    /\ \E i \in 1..Len(soup[1].children) : soup[1].children[i].tag = "nav"
    /\ text_result = None

(***************************************************************************)
(* Properties of the AI calls (specification SpecAgent)                    *)
(***************************************************************************)
\* the calls of a function, as positions in call_log
CallsOf(fn) ==
    {i \in 1..Len(call_log) : call_log[i].fn = fn}

\* the credentials a function needs
Required(fn) ==
    IF fn = "get_agent_answer" THEN {"GOOGLE_API_KEY", "TAVILY_API_KEY"}
    ELSE {"GOOGLE_API_KEY"}

\* API Key Error
K_API_Key_Error ==
    <<"A","P","I"," ","K","e","y"," ","E","r","r","o","r">>

\* the value is one of the two "API Key Error: ..." strings
IsApiKeyError(v) ==
    \/ v = ApiKeyError
    \/ StartsWith(v, K_API_Key_Error)

\* C11: every call of get_agent_answer or summarize_text made while a
\* credential it requires is not set returns the "API Key Error" value, also
\* after earlier calls that succeeded.
C11_MissingCredentialReported ==
    \A i \in 1..Len(call_log) :
        ~ (Required(call_log[i].fn) \subseteq call_log[i].environ)
            => IsApiKeyError(call_log[i].ret)

\* the paths of get_agent_answer that end in a failure value
FailurePaths ==
    {"credential_missing", "init_failure", "agent_failure"}

\* C12: when the latest call of get_agent_answer returned a value for a
\* missing credential, an initialization failure or an exception of the
\* agent, the handler shows it with st.error and not as an answer.
C12_FailuresShownAsErrors ==
    CallsOf("get_agent_answer") # {} =>
        LET last == call_log[Max(CallsOf("get_agent_answer"))]
        IN  last.path \in FailurePaths => shown = "st.error"

\* C14, state part: at most one executor is ever built; a call initializes
\* exactly when the handle is unset; a call that finds the handle set reuses
\* it and invokes it; a call whose initialization fails returns an error
\* value, invokes nothing and leaves the handle unset for the next call.
C14_Cache ==
    /\ builds <= 1
    /\ (agent_executor = NoExecutor) <=> (builds = 0)
    /\ \A i \in 1..Len(call_log) :
          i < Len(call_log) =>
              call_log[i + 1].executor_before = call_log[i].executor_after
    /\ \A i \in CallsOf("get_agent_answer") :
          LET c == call_log[i]
          IN  /\ c.init_attempted <=> (c.executor_before = NoExecutor)
              /\ c.executor_before # NoExecutor =>
                    /\ c.executor_after = c.executor_before
                    /\ c.invoked
                    /\ ~c.built
              /\ (c.init_attempted /\ ~c.built) =>
                    /\ ~c.invoked
                    /\ c.executor_after = NoExecutor
                    /\ \/ c.ret = AgentApiKeyError
                       \/ StartsWith(c.ret, ErrorInitializingPrefix)
              /\ c.built =>
                    /\ c.executor_after # NoExecutor
                    /\ c.invoked

\* C14, step part: a set handle is never reset nor replaced.
C14_NeverReset ==
    agent_executor # NoExecutor => agent_executor' = agent_executor

\* C14: the executor is built lazily, successfully at most once, and reused.
C14_BuiltOnceThenReused ==
    []C14_Cache /\ [][C14_NeverReset]_vars

\* a failed initialization, then a successful one, then a reuse
C14_Witness ==
    /\ Len(call_log) = 3
    /\ \A i \in 1..3 : call_log[i].fn = "get_agent_answer"
    /\ call_log[1].init_attempted /\ ~call_log[1].built
    /\ call_log[2].init_attempted /\ call_log[2].built
    /\ ~call_log[3].init_attempted /\ call_log[3].invoked
    /\ call_log[3].executor_after = call_log[2].executor_after

====
